---- MODULE Spec2Model ----
(***************************************************************************)
(* Model of the bug tracker's REST API (server/routes/bugsRouter.js), the  *)
(* Bug schema and its instance methods (models/Bug.js, carried in the same *)
(* source file from line 371 on) and the error middleware                  *)
(* (server/middleware/errorHandler.js).                                    *)
(*                                                                         *)
(* Strings that the schema trims or measures (title, description,          *)
(* reportedBy, assignedTo, by, reason, author, message, customer) are      *)
(* sequences of one-character strings, so that trim and maxlength are      *)
(* computed.  Strings that are only compared (status, priority, source,    *)
(* from, to, response messages) are TLA+ strings.  A request body is a     *)
(* record whose domain is the set of keys the client sent: a key that is   *)
(* not in the domain reads as undefined.                                   *)
(***************************************************************************)
EXTENDS Integers, Sequences, FiniteSets, Bags, TLC

VARIABLES
    store,      \* the bugs collection: ObjectId -> stored document
    created,    \* number of documents ever inserted (next ObjectId / createdAt)
    resp,       \* the last HTTP response: [op, status, body]
    handlers,   \* the requests in progress: what each handler holds at its await
    env,        \* process.env: whether SLACK_WEBHOOK_URL is set, and NODE_ENV
    deleted,    \* the ids whose DELETE was answered 200
    logged,     \* the ids of the bugs whose notification failure was logged
    form,       \* the BugForm component: its state and its create calls
    list        \* the BugList component: its state and its fetches in flight

vars == <<store, created, resp, handlers, env, deleted, logged, form, list>>

---------------------------------------------------------------------------
(* Bounds of the model *)

\* The documents ever inserted plus the comments and statusHistory entries
\* stored are at most MaxSize
MaxSize == 3

\* The requests in progress at the same time are at most MaxHandlers
MaxHandlers == 2

\* The bugs that the requests in progress together work on are at most
\* MaxShared
MaxShared == 1

(* Limits set by the schema *)

TitleMax == 100
DescriptionMax == 1000
ReporterMax == 50
MessageMax == 2000
ReasonMax == 500

---------------------------------------------------------------------------
(* Strings *)

Rep(c, n) == [i \in 1..n |-> c]

RECURSIVE FirstInk(_, _)
\* The index of the first character of s at or after i that is not a blank
\* (Len(s) + 1 when there is none)
FirstInk(s, i) == IF i > Len(s) \/ s[i] # " " THEN i ELSE FirstInk(s, i + 1)

RECURSIVE LastInk(_, _)
\* The index of the last character of s at or before i that is not a blank
\* (0 when there is none)
LastInk(s, i) == IF i < 1 \/ s[i] # " " THEN i ELSE LastInk(s, i - 1)

\* String.prototype.trim, as applied by the schema option trim: true
Trim(s) == SubSeq(s, FirstInk(s, 1), LastInk(s, Len(s)))

Pad(s) == <<" ">> \o s \o <<" ">>

RECURSIVE Join(_)
\* Array.prototype.join(', ')
Join(msgs) ==
    IF msgs = << >> THEN ""
    ELSE IF Len(msgs) = 1 THEN msgs[1]
    ELSE msgs[1] \o ", " \o Join(Tail(msgs))

\* JavaScript truthiness of body[k]: an absent key or an empty string is falsy
Has(body, k) == k \in DOMAIN body
TruthyStr(body, k) == Has(body, k) /\ body[k] # ""
TruthyTxt(body, k) == Has(body, k) /\ body[k] # << >>

\* body[k] || dflt
OrElseStr(body, k, dflt) == IF TruthyStr(body, k) THEN body[k] ELSE dflt
OrElseTxt(body, k, dflt) == IF TruthyTxt(body, k) THEN body[k] ELSE dflt

\* The record f restricted to the keys in K (the other keys are undefined)
Restrict(f, K) == [k \in (DOMAIN f) \cap K |-> f[k]]

\* Object spread / assignment: the keys of g over those of f
Over(f, g) == [k \in (DOMAIN f) \cup (DOMAIN g) |-> IF k \in DOMAIN g THEN g[k] ELSE f[k]]

---------------------------------------------------------------------------
(* ObjectIds *)

HexChars == {"0", "1", "2", "3", "4", "5", "6", "7", "8", "9",
             "a", "b", "c", "d", "e", "f"}
Digits == <<"1", "2", "3", "4", "5", "6", "7", "8", "9">>

\* The n-th ObjectId the driver generates
Oid(n) == Rep("0", 23) \o <<Digits[n]>>

\* mongoose.Types.ObjectId() made up by a client: well formed, never stored
FakeId == Rep("f", 24)

\* 'invalid-id' of the integration tests
InvalidId == <<"i", "n", "v", "a", "l", "i", "d", "-", "i", "d">>

\* Mongoose casts a string of 24 hex characters to an ObjectId; anything
\* else in the request ids raises CastError
IsValidObjectId(id) == Len(id) = 24 /\ \A i \in 1..Len(id) : id[i] \in HexChars

\* The ids a client can send once n documents have been inserted: the ids it
\* was given, a well-formed id of its own making and a malformed one
ReqIds(n) == {Oid(i) : i \in 1..n} \cup {FakeId, InvalidId}

---------------------------------------------------------------------------
(* The Bug schema *)

Priorities == {"Low", "Medium", "High"}
Statuses == {"Open", "In Progress", "Resolved"}
Sources == {"internal", "customer"}

System == <<"s", "y", "s", "t", "e", "m">>

TextPaths == {"title", "description", "reportedBy", "assignedTo"}
SchemaPaths == <<"title", "description", "priority", "status", "reportedBy",
                 "assignedTo", "source", "customer", "comments", "statusHistory">>

\* Casting of a sub-record whose string fields all carry trim: true
\* (customer, a comment, the by and reason of a statusHistory entry)
TrimFields(r, K) == [k \in DOMAIN r |-> IF k \in K THEN Trim(r[k]) ELSE r[k]]

\* The setter of one schema path: trim for the trimmed strings, casting of
\* the sub-documents for the arrays
CastPath(k, v) ==
    CASE k \in TextPaths -> Trim(v)
      [] k = "customer" -> TrimFields(Restrict(v, {"name", "email", "id"}), {"name", "email", "id"})
      [] k = "comments" -> [i \in 1..Len(v) |-> TrimFields(v[i], {"author", "message"})]
      [] k = "statusHistory" -> [i \in 1..Len(v) |-> TrimFields(v[i], {"by", "reason"})]
      [] OTHER -> v

Msg(failed, m) == IF failed THEN <<m>> ELSE << >>

\* Mutants of the maxlength validator: the limit itself refused; no limit
ExceedsMaxOffByOne(v, max) == Len(v) >= max
ExceedsMaxNever(v, max) == FALSE

\* The maxlength validator, run on the cast (trimmed) value
ExceedsMax(v, max) == Len(v) > max

CommentErrors(c) ==
    Msg(~TruthyTxt(c, "author"), "Path author is required.")
    \o Msg(~TruthyTxt(c, "message"), "Path message is required.")
    \o Msg(Has(c, "message") /\ ExceedsMax(c.message, MessageMax),
           "Path message is longer than the maximum allowed length (2000).")

HistoryErrors(h) ==
    Msg(~TruthyStr(h, "to"), "Path to is required.")
    \o Msg(Has(h, "reason") /\ ExceedsMax(h.reason, ReasonMax),
           "Path reason is longer than the maximum allowed length (500).")

RECURSIVE EachErrors(_, _)
\* The validation errors of the sub-documents of an array, in array order;
\* kind selects the sub-schema
EachErrors(kind, arr) ==
    IF arr = << >> THEN << >>
    ELSE (IF kind = "comments" THEN CommentErrors(Head(arr)) ELSE HistoryErrors(Head(arr)))
         \o EachErrors(kind, Tail(arr))

\* The validators of one schema path on a cast value
PathErrors(k, v) ==
    CASE k = "title" ->
            IF v = << >> THEN <<"Bug title is required">>
            ELSE Msg(ExceedsMax(v, TitleMax), "Title cannot exceed 100 characters")
      [] k = "description" ->
            IF v = << >> THEN <<"Bug description is required">>
            ELSE Msg(ExceedsMax(v, DescriptionMax), "Description cannot exceed 1000 characters")
      [] k = "priority" ->
            IF v = "" THEN <<"Priority is required">>
            ELSE Msg(v \notin Priorities, "Priority must be Low, Medium, or High")
      [] k = "status" ->
            IF v = "" THEN <<"Status is required">>
            ELSE Msg(v \notin Statuses, "Status must be Open, In Progress, or Resolved")
      [] k = "reportedBy" ->
            IF v = << >> THEN <<"Reporter name is required">>
            ELSE Msg(ExceedsMax(v, ReporterMax), "Reporter name cannot exceed 50 characters")
      [] k = "source" -> Msg(v \notin Sources, "Source must be internal or customer")
      [] k = "comments" -> EachErrors("comments", v)
      [] k = "statusHistory" -> EachErrors("statusHistory", v)
      [] OTHER -> << >>

RECURSIVE ErrorsOver(_, _)
\* The validation errors of the paths of doc named in paths
ErrorsOver(paths, doc) ==
    IF paths = << >> THEN << >>
    ELSE (IF Head(paths) \in DOMAIN doc THEN PathErrors(Head(paths), doc[Head(paths)]) ELSE << >>)
         \o ErrorsOver(Tail(paths), doc)

\* Document validation, as run by save(): every path of the schema
Validate(doc) == ErrorsOver(SchemaPaths, doc)

\* new Bug(fields): casting and the schema defaults
NewBug(id, at, fields) ==
    LET cast == [k \in DOMAIN fields |-> CastPath(k, fields[k])]
        defaults == [priority |-> "Medium", status |-> "Open", assignedTo |-> << >>,
                     source |-> "internal", customer |-> << >>,
                     comments |-> << >>, statusHistory |-> << >>]
    IN  Over(Over(defaults, cast), [_id |-> id, createdAt |-> at])

---------------------------------------------------------------------------
(* Responses and the error middleware *)

\* res.status(status).json(body), sent by the handler of route op
Response(op, status, body) == [op |-> op, status |-> status, body |-> body]

\* The errors the handlers pass to next()
CastError == [name |-> "CastError", message |-> "Cast to ObjectId failed"]
ValidationError(msgs) == [name |-> "ValidationError", errors |-> msgs,
                          message |-> "Bug validation failed"]
PlainError(m) == [name |-> "Error", message |-> m]

\* Mutant of the error middleware: the body sent without res.status(), so
\* with the default status 200
ErrorHandlerNoStatus(op, err) ==
    Response(op, 200, [success |-> FALSE, error |-> err.message])

\* err.stack: the name and message of the error, then its call frames
Stack(err) == <<err.name, err.message, "at">>

\* errorHandler(err, req, res, next), in a process started with
\* NODE_ENV = nodeEnv
ErrorHandlerIn(nodeEnv, op, err) ==
    LET error == CASE err.name = "CastError" ->
                        [message |-> "Resource not found", statusCode |-> 404]
                   [] err.name = "ValidationError" ->
                        [message |-> Join(err.errors), statusCode |-> 400]
                   [] OTHER -> Restrict(err, {"message", "statusCode"})
        statusCode == IF Has(error, "statusCode") THEN error.statusCode ELSE 500
        message == IF error.message # "" THEN error.message ELSE "Server Error"
    IN  Response(op, statusCode,
                 Over([success |-> FALSE, error |-> message],
                      IF nodeEnv = "development" THEN [stack |-> Stack(err)]
                      ELSE << >>))

\* errorHandler(err, req, res, next) of the running server
ErrorHandler(op, err) == ErrorHandlerIn(env.NODE_ENV, op, err)

---------------------------------------------------------------------------
(* The collection *)

\* Mutant of the lookup: a malformed id treated as an id that matches nothing
FindByIdNoCast(st, id) == IF id \in DOMAIN st THEN "doc" ELSE "null"

\* Bug.findById(id): "CastError", "null" or "doc"
FindById(st, id) ==
    IF ~IsValidObjectId(id) THEN "CastError"
    ELSE IF id \in DOMAIN st THEN "doc" ELSE "null"

\* doc.save() of a valid document
Save(st, doc) == [i \in (DOMAIN st) \cup {doc._id} |-> IF i = doc._id THEN doc ELSE st[i]]

\* deleteOne
Remove(st, id) == [i \in (DOMAIN st) \ {id} |-> st[i]]

Outcome(st, n, r) == [store |-> st, created |-> n, resp |-> r]

---------------------------------------------------------------------------
(* POST /api/bugs.  Between the save and the response the handler awaits   *)
(* the Slack webhook when one is configured; the call's failure is caught and *)
(* logged, and neither the store nor the response depends on its outcome.   *)

CreateBugResult(st, n, body) ==
    IF ~TruthyTxt(body, "title") \/ ~TruthyTxt(body, "description")
       \/ ~TruthyTxt(body, "reportedBy")
    THEN Outcome(st, n, Response("POST /", 400,
            [success |-> FALSE,
             message |-> "Title, description, and reportedBy are required fields"]))
    ELSE
        LET source == IF Has(body, "source") THEN body.source ELSE ""
            fields ==
                Over([title |-> body.title,
                      description |-> body.description,
                      priority |-> OrElseStr(body, "priority", "Medium"),
                      reportedBy |-> body.reportedBy,
                      assignedTo |-> OrElseTxt(body, "assignedTo", << >>),
                      source |-> OrElseStr(body, "source", "internal")],
                     IF source = "customer"
                     THEN [customer |-> IF Has(body, "customer") THEN body.customer ELSE << >>]
                     ELSE << >>)
            newBug == NewBug(Oid(n + 1), n + 1, fields)
            errs == Validate(newBug)
        IN  IF errs # << >>
            THEN Outcome(st, n, ErrorHandler("POST /", ValidationError(errs)))
            ELSE Outcome(Save(st, newBug), n + 1, Response("POST /", 201,
                    [success |-> TRUE, data |-> newBug,
                     message |-> "Bug created successfully"]))

---------------------------------------------------------------------------
(* GET /api/bugs *)

\* Mutant of the filter: every document matches
FindAny(st, filter) == DOMAIN st

\* Bug.find(filter): the ids of the documents that match every filter field
Find(st, filter) ==
    {i \in DOMAIN st : \A k \in DOMAIN filter : st[i][k] = filter[k]}

\* The strings the sorted paths hold, in the order MongoDB compares strings
\* (by code unit: upper case before lower case)
StringOrder == <<"High", "In Progress", "Low", "Medium", "Open", "Resolved",
                 "customer", "internal">>

\* The sort key of a document: the value at path sortBy as MongoDB orders it
\* (a missing path sorts as null, before every value)
SortKey(doc, sortBy) ==
    CASE sortBy \notin DOMAIN doc -> 0
      [] sortBy = "createdAt" -> doc.createdAt
      [] OTHER -> CHOOSE r \in 1..Len(StringOrder) : StringOrder[r] = doc[sortBy]

\* Mutant of the direction: descending whatever the order
SortDirDesc(order) == -1

\* sort[sortBy] = order === 'desc' ? -1 : 1
SortDir(order) == IF order = "desc" THEN -1 ELSE 1

RECURSIVE SortBy(_, _, _, _)
\* .sort({[sortBy]: dir}) of the documents of st with ids in S; documents
\* with equal keys come in the order of their ids
SortBy(st, S, sortBy, dir) ==
    IF S = {} THEN << >>
    ELSE LET Before(i, j) ==
                 \/ dir * SortKey(st[i], sortBy) < dir * SortKey(st[j], sortBy)
                 \/ /\ SortKey(st[i], sortBy) = SortKey(st[j], sortBy)
                    /\ st[i].createdAt <= st[j].createdAt
             first == CHOOSE i \in S : \A j \in S : Before(i, j)
         IN  <<st[first]>> \o SortBy(st, S \ {first}, sortBy, dir)

ListBugsResult(st, n, query) ==
    LET filter == Over(IF TruthyStr(query, "status") THEN [status |-> query.status] ELSE << >>,
                       IF TruthyStr(query, "priority") THEN [priority |-> query.priority] ELSE << >>)
        sortBy == IF Has(query, "sortBy") THEN query.sortBy ELSE "createdAt"
        order == IF Has(query, "order") THEN query.order ELSE "desc"
        bugs == SortBy(st, Find(st, filter), sortBy, SortDir(order))
    IN  Outcome(st, n, Response("GET /", 200,
            [success |-> TRUE, count |-> Len(bugs), data |-> bugs]))

---------------------------------------------------------------------------
(* GET /api/bugs/:id *)

GetBugResult(st, n, id) ==
    LET found == FindById(st, id)
    IN  CASE found = "CastError" ->
                Outcome(st, n, Response("GET /:id", 400,
                    [success |-> FALSE, message |-> "Invalid bug ID format"]))
          [] found = "null" ->
                Outcome(st, n, Response("GET /:id", 404,
                    [success |-> FALSE, message |-> "Bug not found"]))
          [] OTHER ->
                Outcome(st, n, Response("GET /:id", 200,
                    [success |-> TRUE, data |-> st[id]]))

---------------------------------------------------------------------------
(* PUT /api/bugs/:id *)

\* Mutant of the update: a replacement, which resets the paths the body
\* does not name
CastUpdateReplace(updateData) ==
    LET paths == {SchemaPaths[i] : i \in 1..Len(SchemaPaths)}
    IN  Over([assignedTo |-> << >>, source |-> "internal", customer |-> << >>,
              comments |-> << >>],
             [k \in (DOMAIN updateData) \cap paths |-> CastPath(k, updateData[k])])

\* The schema paths of a request body, cast: what doc.set(body) assigns and
\* what findByIdAndUpdate $sets (strict mode drops the other keys)
CastUpdate(updateData) ==
    LET paths == {SchemaPaths[i] : i \in 1..Len(SchemaPaths)}
    IN  [k \in (DOMAIN updateData) \cap paths |-> CastPath(k, updateData[k])]

\* Mutant of the test: any status given counts as a change
StatusGiven(existing, updateData) == TruthyStr(updateData, "status")

\* updateData.status && updateData.status !== existing.status
StatusChanges(existing, updateData) ==
    TruthyStr(updateData, "status") /\ updateData.status # existing.status

\* The statusHistory entry the handler pushes when the status changes
PutHistoryEntry(existing, updateData) ==
    CastPath("statusHistory",
             <<[from |-> existing.status, to |-> updateData.status,
                by |-> OrElseTxt(updateData, "updatedBy", System)]>>)[1]

\* Mutant of the update: runValidators left out
UpdateValidatorsOff(update) == << >>

\* Bug.findByIdAndUpdate(id, updateData, {new: true, runValidators: true}):
\* the update validators run on the paths of the update only
UpdateValidators(update) == ErrorsOver(SchemaPaths, update)


PutValidationFailed(errs) ==
    Response("PUT /:id", 400,
        [success |-> FALSE, message |-> "Validation error", errors |-> errs])

UpdateBugResult(st, n, id, updateData) ==
    LET found == FindById(st, id)
    IN  CASE found = "CastError" ->
                Outcome(st, n, Response("PUT /:id", 400,
                    [success |-> FALSE, message |-> "Invalid bug ID format"]))
          [] found = "null" ->
                Outcome(st, n, Response("PUT /:id", 404,
                    [success |-> FALSE, message |-> "Bug not found"]))
          [] OTHER ->
                LET existing == st[id]
                IN  IF StatusChanges(existing, updateData)
                    THEN
                        LET pushed == [existing EXCEPT !.statusHistory =
                                          Append(@, PutHistoryEntry(existing, updateData))]
                            saved == Over(pushed, CastUpdate(updateData))
                            errs == Validate(saved)
                        IN  IF errs # << >>
                            THEN Outcome(st, n, PutValidationFailed(errs))
                            ELSE Outcome(Save(st, saved), n, Response("PUT /:id", 200,
                                    [success |-> TRUE, data |-> saved,
                                     message |-> "Bug updated successfully"]))
                    ELSE
                        LET update == CastUpdate(updateData)
                            errs == UpdateValidators(update)
                            updatedBug == Over(existing, update)
                        IN  IF errs # << >>
                            THEN Outcome(st, n, PutValidationFailed(errs))
                            ELSE Outcome(Save(st, updatedBug), n, Response("PUT /:id", 200,
                                    [success |-> TRUE, data |-> updatedBug,
                                     message |-> "Bug updated successfully"]))

---------------------------------------------------------------------------
(* DELETE /api/bugs/:id *)

DeleteBugResult(st, n, id) ==
    LET found == FindById(st, id)
    IN  CASE found = "CastError" ->
                Outcome(st, n, Response("DELETE /:id", 400,
                    [success |-> FALSE, message |-> "Invalid bug ID format"]))
          [] found = "null" ->
                Outcome(st, n, Response("DELETE /:id", 404,
                    [success |-> FALSE, message |-> "Bug not found"]))
          [] OTHER ->
                Outcome(Remove(st, id), n, Response("DELETE /:id", 200,
                    [success |-> TRUE, data |-> st[id],
                     message |-> "Bug deleted successfully"]))

---------------------------------------------------------------------------
(* PATCH /api/bugs/:id/status *)

\* Mutant of the guard: a workflow in which Resolved is final and a status
\* is never set again to itself or to Open
UpdateStatusThrowsWorkflow(newStatus) == newStatus \notin {"In Progress", "Resolved"}

\* bugSchema.methods.updateStatus: the guard that throws 'Invalid status value'
UpdateStatusThrows(newStatus) == newStatus \notin {"Open", "In Progress", "Resolved"}

\* bugSchema.methods.updateStatus: the document it saves
UpdateStatus(bug, newStatus) ==
    [bug EXCEPT !.status = newStatus,
                !.statusHistory = Append(@, [from |-> bug.status, to |-> newStatus,
                                             by |-> System])]

\* The statusHistory entry the handler pushes after updateStatus has returned
PatchHistoryEntry(previousStatus, body) ==
    CastPath("statusHistory",
             <<Over([from |-> previousStatus, to |-> body.status,
                     by |-> OrElseTxt(body, "by", System)],
                    Restrict(body, {"reason"}))>>)[1]

PatchStatusResult(st, n, id, body) ==
    IF ~TruthyStr(body, "status")
    THEN Outcome(st, n, Response("PATCH /:id/status", 400,
            [success |-> FALSE, message |-> "Status is required"]))
    ELSE
    LET found == FindById(st, id)
    IN  CASE found = "CastError" ->
                Outcome(st, n, ErrorHandler("PATCH /:id/status", CastError))
          [] found = "null" ->
                Outcome(st, n, Response("PATCH /:id/status", 404,
                    [success |-> FALSE, message |-> "Bug not found"]))
          [] OTHER ->
                LET bug == st[id]
                    previousStatus == bug.status
                IN  IF UpdateStatusThrows(body.status)
                    THEN Outcome(st, n, ErrorHandler("PATCH /:id/status",
                                                     PlainError("Invalid status value")))
                    ELSE
                    LET updated == UpdateStatus(bug, body.status)
                        errs1 == Validate(updated)
                        st1 == Save(st, updated)
                        pushed == [updated EXCEPT !.statusHistory =
                                      Append(@, PatchHistoryEntry(previousStatus, body))]
                        errs2 == Validate(pushed)
                    IN  IF errs1 # << >>
                        THEN Outcome(st, n, ErrorHandler("PATCH /:id/status",
                                                         ValidationError(errs1)))
                        ELSE IF errs2 # << >>
                        THEN Outcome(st1, n, ErrorHandler("PATCH /:id/status",
                                                          ValidationError(errs2)))
                        ELSE Outcome(Save(st1, pushed), n,
                                Response("PATCH /:id/status", 200,
                                    [success |-> TRUE, data |-> pushed,
                                     message |-> "Bug status updated successfully"]))

---------------------------------------------------------------------------
(* POST /api/bugs/:id/comments *)

\* Mutant of addComment: the comment put first
AddCommentFirst(bug, author, message) ==
    [bug EXCEPT !.comments =
        <<CastPath("comments", <<[author |-> author, message |-> message]>>)[1]>> \o @]

\* bugSchema.methods.addComment: the document it saves
AddComment(bug, author, message) ==
    [bug EXCEPT !.comments =
        Append(@, CastPath("comments", <<[author |-> author, message |-> message]>>)[1])]

AddCommentResult(st, n, id, body) ==
    IF ~TruthyTxt(body, "author") \/ ~TruthyTxt(body, "message")
    THEN Outcome(st, n, Response("POST /:id/comments", 400,
            [success |-> FALSE, message |-> "author and message are required"]))
    ELSE
    LET found == FindById(st, id)
    IN  CASE found = "CastError" ->
                Outcome(st, n, ErrorHandler("POST /:id/comments", CastError))
          [] found = "null" ->
                Outcome(st, n, Response("POST /:id/comments", 404,
                    [success |-> FALSE, message |-> "Bug not found"]))
          [] OTHER ->
                LET bug == AddComment(st[id], body.author, body.message)
                    errs == Validate(bug)
                IN  IF errs # << >>
                    THEN Outcome(st, n, ErrorHandler("POST /:id/comments",
                                                     ValidationError(errs)))
                    ELSE Outcome(Save(st, bug), n, Response("POST /:id/comments", 201,
                            [success |-> TRUE,
                             data |-> bug.comments[Len(bug.comments)],
                             message |-> "Comment added"]))

---------------------------------------------------------------------------
(* POST /api/bugs/feedback *)

\* The customer sub-record of a feedback request: the keys the client left
\* out are undefined
FeedbackCustomer(body) ==
    Over([name |-> body.customerName],
         Over(IF Has(body, "customerEmail") THEN [email |-> body.customerEmail] ELSE << >>,
              IF Has(body, "customerId") THEN [id |-> body.customerId] ELSE << >>))

\* Mutant of the feedback fields: the bug filed as an internal one
FeedbackFieldsInternal(body) ==
    [title |-> body.title,
     description |-> body.description,
     priority |-> OrElseStr(body, "priority", "Medium"),
     reportedBy |-> body.customerName,
     source |-> "internal",
     customer |-> FeedbackCustomer(body)]

\* The fields the handler passes to new Bug()
FeedbackFields(body) ==
    [title |-> body.title,
     description |-> body.description,
     priority |-> OrElseStr(body, "priority", "Medium"),
     reportedBy |-> body.customerName,
     source |-> "customer",
     customer |-> FeedbackCustomer(body)]

FeedbackResult(st, n, body) ==
    IF ~TruthyTxt(body, "title") \/ ~TruthyTxt(body, "description")
       \/ ~TruthyTxt(body, "customerName")
    THEN Outcome(st, n, Response("POST /feedback", 400,
            [success |-> FALSE,
             message |-> "title, description, and customerName are required"]))
    ELSE
        LET bug == NewBug(Oid(n + 1), n + 1, FeedbackFields(body))
            errs == Validate(bug)
        IN  IF errs # << >>
            THEN Outcome(st, n, ErrorHandler("POST /feedback", ValidationError(errs)))
            ELSE Outcome(Save(st, bug), n + 1, Response("POST /feedback", 201,
                    [success |-> TRUE, data |-> bug,
                     message |-> "Feedback captured as bug"]))

---------------------------------------------------------------------------
(* The routes of the app outside the bugs router.  The health response's   *)
(* timestamp and uptime are left out: nothing here depends on them.         *)

\* new ApiError(message, statusCode)
ApiError(message, statusCode) ==
    [name |-> "Error", message |-> message, statusCode |-> statusCode]

\* app.get('/health')
Health ==
    Response("GET /health", 200,
        [success |-> TRUE, message |-> "Server is running",
         environment |-> env.NODE_ENV])

\* notFound(req, res, next), whose error the error middleware answers
NotFound(originalUrl) ==
    ErrorHandler("notFound", ApiError("Route not found: " \o originalUrl, 404))

\* The app's answer to GET path, for a path outside /api/bugs: the health
\* route if it matches, else the 404 handler
ServeGet(path) == IF path = "/health" THEN Health ELSE NotFound(path)

---------------------------------------------------------------------------
(* The requests the clients send *)

TitleA == <<"B", "u", "g">>
TitleB == <<"F", "i", "x">>
DescA == <<"d", "e", "s", "c">>
Jane == <<"J", "a", "n", "e">>
Bob == <<"B", "o", "b">>
Why == <<"w", "h", "y">>
Hello == <<"h", "i">>

Empty == [k \in {} |-> ""]

Sample == [title |-> TitleA, description |-> DescA, reportedBy |-> Jane]

CreateBodies ==
    { Sample,
      Over(Sample, [title |-> Pad(TitleA)]),
      Over(Sample, [title |-> Rep("x", TitleMax) \o <<" ">>, priority |-> "High",
                    assignedTo |-> Bob]),
      Over(Sample, [source |-> "customer", customer |-> [name |-> Jane]]),
      Over(Sample, [source |-> "customer"]),
      Over(Sample, [customer |-> [name |-> Jane]]),
      Over(Sample, [status |-> "Resolved", priority |-> ""]),
      Restrict(Sample, {"description", "reportedBy"}),
      Restrict(Sample, {"title", "reportedBy"}),
      Restrict(Sample, {"title", "description"}),
      Over(Sample, [title |-> << >>]),
      Over(Sample, [title |-> <<" ">>]),
      Over(Sample, [title |-> Rep("x", TitleMax + 1)]),
      Over(Sample, [description |-> Rep("x", DescriptionMax + 1)]),
      Over(Sample, [reportedBy |-> Rep("x", ReporterMax + 1)]),
      Over(Sample, [priority |-> "Urgent"]),
      Over(Sample, [source |-> "partner"]) }

FeedbackSample == [title |-> TitleA, description |-> DescA, customerName |-> Jane]

FeedbackBodies ==
    { FeedbackSample,
      Over(FeedbackSample, [customerEmail |-> Bob, priority |-> "High"]),
      Restrict(FeedbackSample, {"title", "description"}),
      Restrict(FeedbackSample, {"description", "customerName"}),
      Over(FeedbackSample, [priority |-> "Urgent"]),
      Over(FeedbackSample, [customerName |-> Rep("x", ReporterMax + 1)]),
      Over(FeedbackSample, [customerName |-> Pad(Jane), customerEmail |-> Bob,
                            customerId |-> Why]),
      Over(FeedbackSample, [customerName |-> <<" ">>]),
      Over(FeedbackSample, [title |-> << >>]),
      Over(FeedbackSample, [description |-> Rep("x", DescriptionMax) \o <<" ">>,
                            priority |-> ""]) }

PutBodies ==
    { [title |-> TitleB, description |-> DescA, priority |-> "High",
       status |-> "In Progress"],
      [status |-> "Resolved", updatedBy |-> Jane],
      [status |-> "Open"],
      [priority |-> "Low"],
      [assignedTo |-> Pad(Bob)],
      Empty,
      [priority |-> "Urgent"],
      [status |-> "Closed"],
      [status |-> ""],
      [title |-> Rep("x", TitleMax + 1), status |-> "Resolved"],
      [comments |-> << >>],
      [status |-> "Open", statusHistory |-> << >>],
      [customer |-> [name |-> Jane]] }

PatchBodies ==
    { [status |-> "In Progress", by |-> Jane],
      [status |-> "Open"],
      [status |-> "Resolved", reason |-> Why],
      [status |-> "Resolved", reason |-> Rep("x", ReasonMax + 1)],
      [status |-> "Closed"],
      [status |-> ""],
      [by |-> Jane] }

CommentBodies ==
    { [author |-> Jane, message |-> Hello],
      [author |-> Bob, message |-> Pad(Hello)],
      [author |-> Jane],
      [message |-> Hello],
      [author |-> <<" ">>, message |-> Hello],
      [author |-> Jane, message |-> Rep("x", MessageMax + 1)],
      [author |-> Pad(Jane), message |-> Rep("x", MessageMax) \o <<" ">>] }

Queries ==
    { Empty,
      [priority |-> "High"],
      [status |-> "Open"],
      [status |-> ""],
      [status |-> "Closed"],
      [status |-> "Resolved", priority |-> "Medium", order |-> "asc"],
      [sortBy |-> "createdAt", order |-> "desc"],
      [sortBy |-> "createdAt", order |-> "ascending"],
      [sortBy |-> "priority", order |-> "asc"],
      [sortBy |-> "status"],
      [sortBy |-> "votes", order |-> "asc"],
      [source |-> "customer"],
      [assignedTo |-> Bob, status |-> "Open"] }

---------------------------------------------------------------------------
(* The state machine: one action per endpoint, each request handled to    *)
(* completion, one at a time, with no webhook configured.  The requests that are sent are a few of each endpoint's    *)
(* bodies above, enough to reach every kind of stored document and every   *)
(* kind of response.                                                       *)

SentCreateBodies ==
    { Sample,
      Over(Sample, [source |-> "customer", customer |-> [name |-> Jane]]),
      Restrict(Sample, {"title", "reportedBy"}),
      Over(Sample, [priority |-> "Urgent"]) }

SentFeedbackBodies ==
    { FeedbackSample,
      Restrict(FeedbackSample, {"title", "description"}) }

SentPutBodies ==
    { [title |-> TitleB, description |-> DescA, priority |-> "High",
       status |-> "In Progress"],
      [priority |-> "Urgent"],
      [status |-> "Closed"] }

SentPatchBodies ==
    { [status |-> "In Progress", by |-> Jane],
      [status |-> "Resolved", reason |-> Rep("x", ReasonMax + 1)],
      [status |-> "Closed"],
      Empty }

SentCommentBodies ==
    { [author |-> Jane, message |-> Hello],
      [author |-> Jane] }

SentQueries ==
    { Empty,
      [priority |-> "High"],
      [sortBy |-> "priority", order |-> "asc"] }

---------------------------------------------------------------------------
(* The client components, as first rendered *)

\* BugForm: useState of formData
BlankForm ==
    [title |-> << >>, description |-> << >>, priority |-> "Medium",
     reportedBy |-> << >>, assignedTo |-> << >>, source |-> "internal",
     customerName |-> << >>, customerEmail |-> << >>, customerId |-> << >>]

\* BugForm: its state, the create calls it has in flight (their payloads)
\* and the calls that have settled and whose handleSubmit is to resume
InitialForm ==
    [formData |-> BlankForm, isSubmitting |-> FALSE, errors |-> Empty,
     successMessage |-> "", calls |-> << >>, settled |-> << >>]

\* BugList: its state, whether its effect has run (mounted), the params of
\* the fetches in flight and the params of the request whose response is in
\* bugs (shown; none before the first response)
InitialList ==
    [bugs |-> << >>, loading |-> TRUE, error |-> "",
     filters |-> [status |-> "", priority |-> "", source |-> "", assignedTo |-> ""],
     sortBy |-> "createdAt", sortOrder |-> "desc",
     mounted |-> FALSE, fetches |-> EmptyBag, shown |-> Empty]

\* Paths outside /api/bugs
SentPaths == {"/health", "/api/health"}

\* A handler that holds no request
Idle == [pc |-> "idle"]

Init ==
    /\ store = Empty
    /\ created = 0
    /\ resp = Response("", 0, Empty)
    /\ handlers = [h \in 1..MaxHandlers |-> Idle]
    /\ env = [SLACK_WEBHOOK_URL |-> FALSE, NODE_ENV |-> "production"]
    /\ deleted = {}
    /\ logged = {}
    /\ form = InitialForm
    /\ list = InitialList

RECURSIVE Sum(_, _)
Sum(f, S) == IF S = {} THEN 0
             ELSE LET x == CHOOSE y \in S : TRUE IN f[x] + Sum(f, S \ {x})

\* The size of an outcome: documents ever inserted plus sub-documents stored
Size(r) ==
    r.created + Sum([i \in DOMAIN r.store |->
                        Len(r.store[i].statusHistory) + Len(r.store[i].comments)],
                    DOMAIN r.store)

\* The outcome stays within the bound of the model
Bounded(r) == Size(r) <= MaxSize

Apply(r) ==
    /\ Bounded(r)
    /\ store' = r.store
    /\ created' = r.created
    /\ resp' = r.resp
    /\ UNCHANGED <<handlers, env, deleted, logged, form, list>>

CreateBug(body) == Apply(CreateBugResult(store, created, body))
ListBugs(query) == Apply(ListBugsResult(store, created, query))
GetBug(id) == Apply(GetBugResult(store, created, id))
UpdateBug(id, body) == Apply(UpdateBugResult(store, created, id, body))
DeleteBug(id) == Apply(DeleteBugResult(store, created, id))
PatchStatus(id, body) == Apply(PatchStatusResult(store, created, id, body))
PostComment(id, body) == Apply(AddCommentResult(store, created, id, body))
Feedback(body) == Apply(FeedbackResult(store, created, body))
GetPath(path) == Apply(Outcome(store, created, ServeGet(path)))

Next ==
    \/ \E body \in SentCreateBodies : CreateBug(body)
    \/ \E query \in SentQueries : ListBugs(query)
    \/ \E id \in ReqIds(created) : GetBug(id)
    \/ \E id \in ReqIds(created), body \in SentPutBodies : UpdateBug(id, body)
    \/ \E id \in ReqIds(created) : DeleteBug(id)
    \/ \E id \in ReqIds(created), body \in SentPatchBodies : PatchStatus(id, body)
    \/ \E id \in ReqIds(created), body \in SentCommentBodies : PostComment(id, body)
    \/ \E body \in SentFeedbackBodies : Feedback(body)
    \/ \E path \in SentPaths : GetPath(path)

Spec == Init /\ [][Next]_vars

---------------------------------------------------------------------------
(* The handlers step by step.  A handler runs up to its next await, and     *)
(* other requests run between its steps.  Across an await a handler holds   *)
(* the document it read, as it has changed it in memory (bug), and the      *)
(* changes save() is to send (delta): save() of a document that is not new  *)
(* sends the paths set and the sub-documents pushed, not the document.      *)
(* The PUT bodies sent here name no array, so no save carries a version     *)
(* condition.                                                               *)

Delta(set, pushHistory, pushComments) ==
    [set |-> set, statusHistory |-> pushHistory, comments |-> pushComments]

\* The stored document once updateOne has applied the changes
Written(doc, delta) ==
    [Over(doc, delta.set) EXCEPT !.statusHistory = @ \o delta.statusHistory,
                                 !.comments = @ \o delta.comments]

\* Mutant of the write: an upsert, which stores the document when it is gone
UpdateOneUpsert(st, bug, delta) ==
    IF bug._id \in DOMAIN st THEN [st EXCEPT ![bug._id] = Written(@, delta)]
    ELSE Save(st, bug)

\* updateOne({_id: bug._id}, changes): a document that is gone is not written
UpdateOne(st, bug, delta) ==
    IF bug._id \in DOMAIN st THEN [st EXCEPT ![bug._id] = Written(@, delta)]
    ELSE st

NoError == [name |-> ""]

\* save() of a document read earlier: validation of the document in memory,
\* then updateOne; save() rejects when no stored document matched
SaveExisting(st, bug, delta) ==
    LET errs == Validate(bug)
    IN  IF errs # << >> THEN [store |-> st, error |-> ValidationError(errs)]
        ELSE [store |-> UpdateOne(st, bug, delta),
              error |-> IF bug._id \in DOMAIN st THEN NoError
                        ELSE PlainError("No document found for query")]

\* The changes of the PUT handler's save(): the body's paths whose value
\* differs from the document's, and the pushed entry unless the body's own
\* statusHistory has replaced the array
PutDelta(existing, updateData) ==
    LET update == CastUpdate(updateData)
        entry == PutHistoryEntry(existing, updateData)
        pushed == [existing EXCEPT !.statusHistory = Append(@, entry)]
    IN  Delta(Restrict(update, {k \in DOMAIN update : update[k] # pushed[k]}),
              IF "statusHistory" \in DOMAIN update THEN << >> ELSE <<entry>>,
              << >>)

\* Mutant of the notification: no catch around the webhook call
AfterNotifyUncaught(answer, outcome) ==
    IF outcome = "failed"
    THEN ErrorHandler(answer.op, PlainError("Request failed with status code 500"))
    ELSE answer

\* try { await axios.post(...) } catch (notifyErr) { console.error(...) }
\* and then the response the handler had ready: the failure is only logged
AfterNotify(answer, outcome) == answer

\* The lowest handler that holds no request takes the next one
Free(h) == handlers[h] = Idle /\ \A g \in 1..(h - 1) : handlers[g] # Idle

\* Handler h runs to its next await or to its response: the collection and
\* the id counter it leaves, the last response sent, and what it holds
Step(h, st, n, r, holds) ==
    /\ Bounded(Outcome(st, n, r))
    /\ store' = st
    /\ created' = n
    /\ resp' = r
    /\ handlers' = [handlers EXCEPT ![h] = holds]
    /\ UNCHANGED <<env, form, list>>

\* POST /api/bugs and POST /api/bugs/feedback up to the webhook call
StartCreate(h, body) ==
    /\ Free(h)
    /\ LET r == CreateBugResult(store, created, body)
       IN  IF r.resp.status = 201 /\ env.SLACK_WEBHOOK_URL
           THEN Step(h, r.store, r.created, resp, [pc |-> "notify", answer |-> r.resp])
           ELSE Step(h, r.store, r.created, r.resp, Idle)
    /\ UNCHANGED <<deleted, logged>>

StartFeedback(h, body) ==
    /\ Free(h)
    /\ LET r == FeedbackResult(store, created, body)
       IN  IF r.resp.status = 201 /\ env.SLACK_WEBHOOK_URL
           THEN Step(h, r.store, r.created, resp, [pc |-> "notify", answer |-> r.resp])
           ELSE Step(h, r.store, r.created, r.resp, Idle)
    /\ UNCHANGED <<deleted, logged>>

\* The webhook call settles: fulfilled, or rejected and the failure logged
NotifySettles(h, outcome) ==
    /\ handlers[h].pc = "notify"
    /\ Step(h, store, created, resp,
            [pc |-> "respond", answer |-> AfterNotify(handlers[h].answer, outcome)])
    /\ logged' = IF outcome = "failed"
                 THEN logged \cup {handlers[h].answer.body.data._id}
                 ELSE logged
    /\ UNCHANGED deleted

\* res.status(201).json(...), reached once the webhook call has settled
Respond(h) ==
    /\ handlers[h].pc = "respond"
    /\ Step(h, store, created, handlers[h].answer, Idle)
    /\ UNCHANGED <<deleted, logged>>

\* PUT /api/bugs/:id up to its write: findById and the choice of the branch
StartPut(h, id, body) ==
    /\ Free(h)
    /\ IF FindById(store, id) # "doc"
       THEN LET r == UpdateBugResult(store, created, id, body)
            IN  Step(h, r.store, r.created, r.resp, Idle)
       ELSE IF StatusChanges(store[id], body)
       THEN LET existing == store[id]
                pushed == [existing EXCEPT !.statusHistory =
                              Append(@, PutHistoryEntry(existing, body))]
            IN  Step(h, store, created, resp,
                     [pc |-> "save", op |-> "PUT /:id",
                      bug |-> Over(pushed, CastUpdate(body)),
                      delta |-> PutDelta(existing, body)])
       ELSE Step(h, store, created, resp,
                 [pc |-> "update", op |-> "PUT /:id", id |-> id, body |-> body])
    /\ UNCHANGED <<deleted, logged>>

\* existing.save() of the PUT handler, and its response
PutSave(h) ==
    /\ handlers[h].pc = "save" /\ handlers[h].op = "PUT /:id"
    /\ LET saved == SaveExisting(store, handlers[h].bug, handlers[h].delta)
       IN  Step(h, saved.store, created,
                CASE saved.error.name = "ValidationError" ->
                        PutValidationFailed(saved.error.errors)
                  [] saved.error.name = "Error" ->
                        ErrorHandler("PUT /:id", saved.error)
                  [] OTHER ->
                        Response("PUT /:id", 200,
                            [success |-> TRUE, data |-> handlers[h].bug,
                             message |-> "Bug updated successfully"]),
                Idle)
    /\ UNCHANGED <<deleted, logged>>

\* Bug.findByIdAndUpdate of the PUT handler, and its response
PutUpdate(h) ==
    /\ handlers[h].pc = "update"
    /\ LET id == handlers[h].id
           update == CastUpdate(handlers[h].body)
           errs == UpdateValidators(update)
       IN  IF errs # << >>
           THEN Step(h, store, created, PutValidationFailed(errs), Idle)
           ELSE IF id \notin DOMAIN store
           THEN Step(h, store, created,
                     Response("PUT /:id", 404,
                         [success |-> FALSE, message |-> "Bug not found"]), Idle)
           ELSE Step(h, Save(store, Over(store[id], update)), created,
                     Response("PUT /:id", 200,
                         [success |-> TRUE, data |-> Over(store[id], update),
                          message |-> "Bug updated successfully"]), Idle)
    /\ UNCHANGED <<deleted, logged>>

\* PATCH /api/bugs/:id/status up to the save() inside updateStatus
StartPatch(h, id, body) ==
    /\ Free(h)
    /\ IF TruthyStr(body, "status") /\ FindById(store, id) = "doc"
          /\ ~UpdateStatusThrows(body.status)
       THEN LET bug == UpdateStatus(store[id], body.status)
            IN  Step(h, store, created, resp,
                     [pc |-> "save1", op |-> "PATCH /:id/status", bug |-> bug,
                      previousStatus |-> store[id].status, body |-> body,
                      delta |-> Delta(IF body.status # store[id].status
                                      THEN [status |-> body.status] ELSE Empty,
                                      <<bug.statusHistory[Len(bug.statusHistory)]>>,
                                      << >>)])
       ELSE LET r == PatchStatusResult(store, created, id, body)
            IN  Step(h, r.store, r.created, r.resp, Idle)
    /\ UNCHANGED <<deleted, logged>>

\* this.save() of updateStatus, then the handler's own push
PatchSave1(h) ==
    /\ handlers[h].pc = "save1"
    /\ LET saved == SaveExisting(store, handlers[h].bug, handlers[h].delta)
           entry == PatchHistoryEntry(handlers[h].previousStatus, handlers[h].body)
       IN  IF saved.error # NoError
           THEN Step(h, saved.store, created,
                     ErrorHandler("PATCH /:id/status", saved.error), Idle)
           ELSE Step(h, saved.store, created, resp,
                     [handlers[h] EXCEPT !.pc = "save2",
                                         !.bug.statusHistory = Append(@, entry),
                                         !.delta = Delta(Empty, <<entry>>, << >>)])
    /\ UNCHANGED <<deleted, logged>>

\* bug.save() of the PATCH handler, and its response
PatchSave2(h) ==
    /\ handlers[h].pc = "save2"
    /\ LET saved == SaveExisting(store, handlers[h].bug, handlers[h].delta)
       IN  Step(h, saved.store, created,
                IF saved.error # NoError
                THEN ErrorHandler("PATCH /:id/status", saved.error)
                ELSE Response("PATCH /:id/status", 200,
                         [success |-> TRUE, data |-> handlers[h].bug,
                          message |-> "Bug status updated successfully"]),
                Idle)
    /\ UNCHANGED <<deleted, logged>>

\* POST /api/bugs/:id/comments up to the save() inside addComment
StartComment(h, id, body) ==
    /\ Free(h)
    /\ IF TruthyTxt(body, "author") /\ TruthyTxt(body, "message")
          /\ FindById(store, id) = "doc"
       THEN LET bug == AddComment(store[id], body.author, body.message)
            IN  Step(h, store, created, resp,
                     [pc |-> "save", op |-> "POST /:id/comments", bug |-> bug,
                      delta |-> Delta(Empty, << >>,
                                      <<bug.comments[Len(bug.comments)]>>)])
       ELSE LET r == AddCommentResult(store, created, id, body)
            IN  Step(h, r.store, r.created, r.resp, Idle)
    /\ UNCHANGED <<deleted, logged>>

\* this.save() of addComment, and the handler's response
CommentSave(h) ==
    /\ handlers[h].pc = "save" /\ handlers[h].op = "POST /:id/comments"
    /\ LET saved == SaveExisting(store, handlers[h].bug, handlers[h].delta)
           bug == handlers[h].bug
       IN  Step(h, saved.store, created,
                IF saved.error # NoError
                THEN ErrorHandler("POST /:id/comments", saved.error)
                ELSE Response("POST /:id/comments", 201,
                         [success |-> TRUE, data |-> bug.comments[Len(bug.comments)],
                          message |-> "Comment added"]),
                Idle)
    /\ UNCHANGED <<deleted, logged>>

\* DELETE /api/bugs/:id: findByIdAndDelete is one operation of the database
StepDelete(id) ==
    LET r == DeleteBugResult(store, created, id)
    IN  /\ store' = r.store
        /\ created' = r.created
        /\ resp' = r.resp
        /\ deleted' = IF r.resp.status = 200 THEN deleted \cup {id} ELSE deleted
        /\ UNCHANGED <<handlers, env, logged, form, list>>

\* The requests sent while others are in progress
StepPutBodies ==
    { [status |-> "Resolved", updatedBy |-> Jane], [status |-> "Open"],
      [priority |-> "Low"] }
StepPatchBodies == { [status |-> "In Progress", by |-> Jane] }
StepCommentBodies == { [author |-> Jane, message |-> Hello] }

\* The ids the server has given out
GivenIds == {Oid(i) : i \in 1..created}

\* The steps the server takes by itself once the database has answered
Continue ==
    \E h \in 1..MaxHandlers :
        PutSave(h) \/ PutUpdate(h) \/ PatchSave1(h) \/ PatchSave2(h) \/ CommentSave(h)

StepNext ==
    \/ \E h \in 1..MaxHandlers : created < MaxShared /\ StartCreate(h, Sample)
    \/ \E h \in 1..MaxHandlers, id \in GivenIds, body \in StepPutBodies : StartPut(h, id, body)
    \/ \E h \in 1..MaxHandlers, id \in GivenIds, body \in StepPatchBodies : StartPatch(h, id, body)
    \/ \E h \in 1..MaxHandlers, id \in GivenIds, body \in StepCommentBodies : StartComment(h, id, body)
    \/ \E id \in GivenIds : StepDelete(id)
    \/ Continue

\* Requests on the bugs in progress together (no webhook configured)
Steps == Init /\ [][StepNext]_vars

HookInit ==
    /\ store = Empty
    /\ created = 0
    /\ resp = Response("", 0, Empty)
    /\ handlers = [h \in 1..MaxHandlers |-> Idle]
    /\ env \in {[SLACK_WEBHOOK_URL |-> url, NODE_ENV |-> "production"] : url \in BOOLEAN}
    /\ deleted = {}
    /\ logged = {}
    /\ form = InitialForm
    /\ list = InitialList

\* The steps the server takes by itself
Responds == \E h \in 1..MaxHandlers : Respond(h)

HookNext ==
    \/ \E h \in 1..MaxHandlers, body \in SentCreateBodies : StartCreate(h, body)
    \/ \E h \in 1..MaxHandlers, body \in SentFeedbackBodies : StartFeedback(h, body)
    \/ \E h \in 1..MaxHandlers, outcome \in {"sent", "failed"} : NotifySettles(h, outcome)
    \/ Responds

\* Creation requests in progress together, with or without a webhook
Hooked == HookInit /\ [][HookNext]_vars

\* The same, where the server takes its own steps once it can.  Nothing
\* makes the webhook call settle: axios.post is given no timeout.
FairHooked == Hooked /\ WF_vars(Responds)

---------------------------------------------------------------------------
(* Properties.  A property of an endpoint is stated over every request of  *)
(* the endpoint's bodies above, handled in the current state: it holds in  *)
(* every reachable state iff every such request, whenever it is made, has  *)
(* the stated outcome.                                                     *)

EnumStatuses == {"Open", "In Progress", "Resolved"}
EnumPriorities == {"Low", "Medium", "High"}
EnumSources == {"internal", "customer"}

\* Ids for the properties: those a client can send, and two more malformed
ClaimIds == ReqIds(created) \cup {Rep("0", 23), Rep("g", 24)}

IsPrefix(a, b) == Len(a) <= Len(b) /\ SubSeq(b, 1, Len(a)) = a

Failed(r) == r.resp.status >= 400 /\ r.resp.body.success = FALSE

HasMessage(r, m) == Has(r.resp.body, "message") /\ r.resp.body.message = m

\* C1: every successful PATCH /bugs/:id/status appends exactly one entry to
\* the bug's statusHistory, with from = the status stored before, to = the
\* requested status and by = the request's by ("system" when none is given).
C1_PatchAppendsOneEntry ==
    \A id \in DOMAIN store, body \in PatchBodies :
        LET r == PatchStatusResult(store, created, id, body)
            old == store[id].statusHistory
        IN  r.resp.status = 200 =>
                LET new == r.store[id].statusHistory
                IN  /\ Len(new) = Len(old) + 1
                    /\ IsPrefix(old, new)
                    /\ new[Len(new)].from = store[id].status
                    /\ new[Len(new)].to = body.status
                    /\ new[Len(new)].by = OrElseTxt(body, "by", System)

\* Every outcome of one more request, of any endpoint and body, in state (st, n)
Outcomes(st, n) ==
    {CreateBugResult(st, n, body) : body \in CreateBodies}
    \cup {FeedbackResult(st, n, body) : body \in FeedbackBodies}
    \cup {UpdateBugResult(st, n, id, body) : id \in ReqIds(n), body \in PutBodies}
    \cup {PatchStatusResult(st, n, id, body) : id \in ReqIds(n), body \in PatchBodies}
    \cup {AddCommentResult(st, n, id, body) : id \in ReqIds(n), body \in CommentBodies}
    \cup {DeleteBugResult(st, n, id) : id \in ReqIds(n)}

EnumsHold(st) ==
    \A i \in DOMAIN st : st[i].status \in EnumStatuses /\ st[i].priority \in EnumPriorities

Kept(before, after) ==
    \A i \in (DOMAIN before) \cap (DOMAIN after) :
        /\ IsPrefix(before[i].comments, after[i].comments)
        /\ IsPrefix(before[i].statusHistory, after[i].statusHistory)

\* C3: comments and statusHistory are append-only: a PUT with any body, a
\* PATCH status or a comment append leaves every entry stored before in place
\* and in order, possibly followed by new ones.
C3_AppendOnly ==
    \A id \in DOMAIN store :
        /\ \A body \in PutBodies : Kept(store, UpdateBugResult(store, created, id, body).store)
        /\ \A body \in PatchBodies : Kept(store, PatchStatusResult(store, created, id, body).store)
        /\ \A body \in CommentBodies : Kept(store, AddCommentResult(store, created, id, body).store)

\* The request grew the bug's statusHistory by one entry if it changed the
\* stored status, and by none if it did not
CountsStatusChange(id, r) ==
    r.resp.body.success =>
        Len(r.store[id].statusHistory) =
            Len(store[id].statusHistory)
            + (IF r.store[id].status # store[id].status THEN 1 ELSE 0)

\* C4: the length of a bug's statusHistory equals the number of successful
\* requests that changed its stored status: it is 0 when the record is
\* created, and every successful PUT, PATCH-status or comment request adds one
\* entry if it changes the stored status and none otherwise.
C4_HistoryCountsStatusChanges ==
    /\ \A r \in {CreateBugResult(store, created, body) : body \in CreateBodies} :
          r.resp.body.success => r.store[Oid(created + 1)].statusHistory = << >>
    /\ \A id \in DOMAIN store :
          /\ \A body \in PutBodies :
                CountsStatusChange(id, UpdateBugResult(store, created, id, body))
          /\ \A body \in PatchBodies :
                CountsStatusChange(id, PatchStatusResult(store, created, id, body))
          /\ \A body \in CommentBodies :
                CountsStatusChange(id, AddCommentResult(store, created, id, body))

\* C5: a PATCH /bugs/:id/status whose status is missing or outside Open, In
\* Progress, Resolved fails and leaves the store, so every field of every
\* record, unchanged.
C5_InvalidStatusChangesNothing ==
    \A id \in ClaimIds, body \in PatchBodies :
        (~Has(body, "status") \/ body.status \notin EnumStatuses) =>
            LET r == PatchStatusResult(store, created, id, body)
            IN  Failed(r) /\ r.store = store /\ r.created = created

\* C5 witness: a PATCH with a status outside the enum was refused for a
\* stored bug (the only 500 of the endpoint).
C5_Witness ==
    /\ store # Empty
    /\ resp.op = "PATCH /:id/status" /\ resp.status = 500 /\ resp.body.success = FALSE

\* C6: a PATCH /bugs/:id/status on an existing bug whose status is non-empty
\* but outside the enum is answered 400 with success=false.
C6_InvalidStatusIs400 ==
    \A id \in DOMAIN store, body \in PatchBodies :
        (TruthyStr(body, "status") /\ body.status \notin EnumStatuses) =>
            LET r == PatchStatusResult(store, created, id, body)
            IN  r.resp.status = 400 /\ r.resp.body.success = FALSE

\* The answer to a malformed id, and to a well-formed id that matches nothing
BadIdAnswer(r) ==
    /\ r.resp.status = 400 /\ HasMessage(r, "Invalid bug ID format")
    /\ r.resp.body.success = FALSE
    /\ r.store = store /\ r.created = created
NoBugAnswer(r) ==
    /\ r.resp.status = 404 /\ HasMessage(r, "Bug not found")
    /\ r.resp.body.success = FALSE
    /\ r.store = store /\ r.created = created

IdAnswer(id, r) ==
    /\ ~IsValidObjectId(id) => BadIdAnswer(r)
    /\ (IsValidObjectId(id) /\ id \notin DOMAIN store) => NoBugAnswer(r)

\* C7: GET, PUT and DELETE on /bugs/:id answer a malformed id with 400
\* 'Invalid bug ID format' and a well-formed id that matches no record with 404
\* 'Bug not found', with success=false and the store unchanged.
C7_IdErrors ==
    \A id \in ClaimIds :
        /\ IdAnswer(id, GetBugResult(store, created, id))
        /\ IdAnswer(id, DeleteBugResult(store, created, id))
        /\ \A body \in PutBodies : IdAnswer(id, UpdateBugResult(store, created, id, body))

\* C7 witness: a PUT with a malformed id was answered 400 while a bug is stored.
C7_Witness ==
    /\ store # Empty
    /\ resp.op = "PUT /:id" /\ resp.status = 400
    /\ Has(resp.body, "message") /\ resp.body.message = "Invalid bug ID format"

\* C8: PATCH /bugs/:id/status with a status given and POST /bugs/:id/comments
\* with author and message given answer a malformed id with 400 and a
\* well-formed id that matches no record with 404.
C8_PatchCommentIdErrors ==
    \A id \in ClaimIds :
        /\ \A body \in PatchBodies :
              TruthyStr(body, "status") =>
                  LET r == PatchStatusResult(store, created, id, body)
                  IN  /\ ~IsValidObjectId(id) => r.resp.status = 400
                      /\ (IsValidObjectId(id) /\ id \notin DOMAIN store) => r.resp.status = 404
        /\ \A body \in CommentBodies :
              (TruthyTxt(body, "author") /\ TruthyTxt(body, "message")) =>
                  LET r == AddCommentResult(store, created, id, body)
                  IN  /\ ~IsValidObjectId(id) => r.resp.status = 400
                      /\ (IsValidObjectId(id) /\ id \notin DOMAIN store) => r.resp.status = 404

\* title, description and reportedBy are present and within the length limits
RequiredGiven(body) ==
    /\ TruthyTxt(body, "title") /\ Len(Trim(body.title)) <= 100
    /\ TruthyTxt(body, "description") /\ Len(Trim(body.description)) <= 1000
    /\ TruthyTxt(body, "reportedBy") /\ Len(Trim(body.reportedBy)) <= 50

\* The request was answered 201 and stored a new record with the requested
\* priority (Medium when none is given) and, unless the body names a status,
\* the status Open
Created201(body, r) ==
    /\ r.resp.status = 201 /\ r.resp.body.success = TRUE
    /\ DOMAIN r.store = (DOMAIN store) \cup {Oid(created + 1)}
    /\ Oid(created + 1) \notin DOMAIN store
    /\ \A i \in DOMAIN store : r.store[i] = store[i]
    /\ r.store[Oid(created + 1)].priority = OrElseStr(body, "priority", "Medium")
    /\ ~Has(body, "status") => r.store[Oid(created + 1)].status = "Open"

\* C9 as stated: every POST /bugs whose title, description and reportedBy are
\* present and within their length limits is answered 201 with success=true
\* and stores a new record whose priority is the requested priority (Medium
\* when none is given) and whose status is Open when the request does not
\* override it.
C9_CreateAnswered201 ==
    \A body \in CreateBodies :
        RequiredGiven(body) => Created201(body, CreateBugResult(store, created, body))

\* C9 as amended: the same for every POST /bugs whose title, description and
\* reportedBy are moreover not blank and whose priority and source, when given
\* and not empty, are values of their enums.
C9_ValidCreateAnswered201 ==
    \A body \in CreateBodies :
        ( /\ RequiredGiven(body)
          /\ Trim(body.title) # << >> /\ Trim(body.description) # << >>
          /\ Trim(body.reportedBy) # << >>
          /\ TruthyStr(body, "priority") => body.priority \in EnumPriorities
          /\ TruthyStr(body, "source") => body.source \in EnumSources )
        => Created201(body, CreateBugResult(store, created, body))

\* C9 witness: a POST /bugs that named no priority was answered 201 and its
\* record is stored with priority Medium and status Open.
C9_Witness ==
    /\ resp.op = "POST /" /\ resp.status = 201
    /\ resp.body.data._id \in DOMAIN store
    /\ store[resp.body.data._id].priority = "Medium"
    /\ store[resp.body.data._id].status = "Open"

\* The body lacks a required field or violates a constraint of the schema
Defective(body) ==
    \/ ~TruthyTxt(body, "title") \/ ~TruthyTxt(body, "description")
    \/ ~TruthyTxt(body, "reportedBy")
    \/ TruthyStr(body, "priority") /\ body.priority \notin EnumPriorities
    \/ TruthyStr(body, "source") /\ body.source \notin EnumSources
    \/ Len(Trim(body.title)) > 100
    \/ Len(Trim(body.description)) > 1000
    \/ Len(Trim(body.reportedBy)) > 50

\* count of GET /bugs without filters
Count(st, n) == ListBugsResult(st, n, Empty).resp.body.count

\* C10: every POST /bugs that lacks title, description or reportedBy, or that
\* violates a schema constraint (priority or source outside its enum, title
\* longer than 100, description longer than 1000, reportedBy longer than 50,
\* measured as the schema does, after trimming), is answered 400 with
\* success=false and persists nothing: the stored bugs and the count of
\* GET /bugs are unchanged.
C10_DefectiveCreateRefused ==
    \A body \in CreateBodies :
        Defective(body) =>
            LET r == CreateBugResult(store, created, body)
            IN  /\ r.resp.status = 400 /\ r.resp.body.success = FALSE
                /\ r.store = store
                /\ Count(r.store, r.created) = Count(store, created)

\* C10 witness: a POST /bugs that violates the schema was answered 400 by the
\* error middleware while a bug is stored.
C10_Witness ==
    /\ store # Empty
    /\ resp.op = "POST /" /\ resp.status = 400 /\ Has(resp.body, "error")

\* C12: a successful PUT /bugs/:id whose body status differs from the stored
\* status appends exactly one statusHistory entry {from: stored status, to:
\* body status, by: body.updatedBy or "system"} and stores the new status; a
\* successful PUT whose body has no status, or the stored one, appends none.
C12_PutHistory ==
    \A id \in DOMAIN store, body \in PutBodies :
        LET r == UpdateBugResult(store, created, id, body)
            old == store[id].statusHistory
        IN  r.resp.status = 200 =>
                IF Has(body, "status") /\ body.status # store[id].status
                THEN /\ r.store[id].statusHistory =
                            Append(old, [from |-> store[id].status, to |-> body.status,
                                         by |-> OrElseTxt(body, "updatedBy", System)])
                     /\ r.store[id].status = body.status
                ELSE r.store[id].statusHistory = old

\* The stored records that match every status and priority filter the query
\* supplies (an empty value supplies none)
Matching(query) ==
    {store[i] : i \in {j \in DOMAIN store :
        /\ TruthyStr(query, "status") => store[j].status = query.status
        /\ TruthyStr(query, "priority") => store[j].priority = query.priority}}

C14_SourceAssigneeFilter ==
    \A query \in Queries :
        LET data == ListBugsResult(store, created, query).resp.body.data
        IN  \A k \in 1..Len(data) :
                /\ TruthyStr(query, "source") => data[k].source = query.source
                /\ TruthyTxt(query, "assignedTo") => data[k].assignedTo = query.assignedTo
                /\ data[k] \in Matching(query)

\* The keys of the listed records never decrease (dir = 1) or never increase
\* (dir = -1) along the list
Ordered(data, sortBy, dir) ==
    \A k \in 1..(Len(data) - 1) :
        dir * SortKey(data[k], sortBy) <= dir * SortKey(data[k + 1], sortBy)

\* C15: GET /bugs returns the records ordered by the sortBy field, descending
\* when order=desc and ascending for any other order value; with no sort
\* parameters the order is by createdAt descending (newest first).
C15_ListOrdered ==
    \A query \in Queries :
        LET data == ListBugsResult(store, created, query).resp.body.data
            sortBy == IF Has(query, "sortBy") THEN query.sortBy ELSE "createdAt"
        IN  /\ (Has(query, "order") /\ query.order = "desc") => Ordered(data, sortBy, -1)
            /\ (Has(query, "order") /\ query.order # "desc") => Ordered(data, sortBy, 1)
            /\ (~Has(query, "sortBy") /\ ~Has(query, "order")) => Ordered(data, "createdAt", -1)

\* C15 witness: GET /bugs?sortBy=priority&order=asc listed a High bug before
\* a Medium bug that was created earlier.
C15_Witness ==
    /\ resp.op = "GET /" /\ resp.status = 200 /\ resp.body.count = 2
    /\ resp.body.data[1].priority = "High" /\ resp.body.data[2].priority = "Medium"
    /\ resp.body.data[1].createdAt > resp.body.data[2].createdAt

\* The request was answered 201 with the new comment, which is now the last
\* of the bug's comments, and nothing else in the store has changed
CommentAppended(id, body, r) ==
    LET comment == [author |-> Trim(body.author), message |-> Trim(body.message)]
    IN  /\ r.resp.status = 201 /\ r.resp.body.success = TRUE
        /\ r.resp.body.data = comment
        /\ r.store = [store EXCEPT ![id].comments = Append(@, comment)]

\* C16 as stated: POST /bugs/:id/comments with author and message present on
\* an existing bug is answered 201 with the new comment as data; the comment
\* becomes the last of the bug's comments (one more than before) and the
\* bug's status, priority, statusHistory and earlier comments are unchanged.
C16_CommentAnswered201 ==
    \A id \in DOMAIN store, body \in CommentBodies :
        (TruthyTxt(body, "author") /\ TruthyTxt(body, "message")) =>
            CommentAppended(id, body, AddCommentResult(store, created, id, body))

\* C16 as amended: the same for every request whose author and message are
\* moreover not blank and whose message, trimmed, has at most 2000 characters.
C16_ValidCommentAnswered201 ==
    \A id \in DOMAIN store, body \in CommentBodies :
        ( /\ TruthyTxt(body, "author") /\ TruthyTxt(body, "message")
          /\ Trim(body.author) # << >> /\ Trim(body.message) # << >>
          /\ Len(Trim(body.message)) <= 2000 )
        => CommentAppended(id, body, AddCommentResult(store, created, id, body))

\* C16 witness: a comment request was answered 201 and its comment is the
\* last comment of a stored bug.
C16_Witness ==
    /\ resp.op = "POST /:id/comments" /\ resp.status = 201
    /\ \E i \in DOMAIN store :
          /\ store[i].comments # << >>
          /\ store[i].comments[Len(store[i].comments)] = resp.body.data

\* title, description and customerName are present and valid under the
\* schema, as is the priority when one is given
FeedbackValid(body) ==
    /\ TruthyTxt(body, "title") /\ Trim(body.title) # << >>
    /\ Len(Trim(body.title)) <= 100
    /\ TruthyTxt(body, "description") /\ Trim(body.description) # << >>
    /\ Len(Trim(body.description)) <= 1000
    /\ TruthyTxt(body, "customerName") /\ Trim(body.customerName) # << >>
    /\ Len(Trim(body.customerName)) <= 50
    /\ TruthyStr(body, "priority") => body.priority \in EnumPriorities

\* customer = {name: customerName, email: customerEmail, id: customerId},
\* with the strings trimmed and the keys the client did not send undefined
CustomerOf(body) ==
    [k \in {"name"} \cup (IF Has(body, "customerEmail") THEN {"email"} ELSE {})
                    \cup (IF Has(body, "customerId") THEN {"id"} ELSE {}) |->
        CASE k = "name" -> Trim(body.customerName)
          [] k = "email" -> Trim(body.customerEmail)
          [] k = "id" -> Trim(body.customerId)]

\* C17: every POST /bugs/feedback with title, description and customerName
\* present and valid is answered 201 and stores a new bug with
\* source=customer, reportedBy=customerName, customer={name, email, id} of the
\* request and status Open; when any of the three is missing it is answered
\* 400 and nothing is stored.
C17_Feedback ==
    \A body \in FeedbackBodies :
        LET r == FeedbackResult(store, created, body)
            id == Oid(created + 1)
        IN  /\ FeedbackValid(body) =>
                  /\ r.resp.status = 201 /\ r.resp.body.success = TRUE
                  /\ id \notin DOMAIN store
                  /\ DOMAIN r.store = (DOMAIN store) \cup {id}
                  /\ \A i \in DOMAIN store : r.store[i] = store[i]
                  /\ r.store[id].source = "customer"
                  /\ r.store[id].reportedBy = Trim(body.customerName)
                  /\ r.store[id].customer = CustomerOf(body)
                  /\ r.store[id].status = "Open"
            /\ (~TruthyTxt(body, "title") \/ ~TruthyTxt(body, "description")
                \/ ~TruthyTxt(body, "customerName")) =>
                  /\ r.resp.status = 400 /\ r.resp.body.success = FALSE
                  /\ r.store = store /\ r.created = created

\* C17 witness: a feedback request was answered 201 and its bug is stored
\* with source customer and the customer's name, beside an earlier bug.
C17_Witness ==
    /\ resp.op = "POST /feedback" /\ resp.status = 201
    /\ Cardinality(DOMAIN store) = 2
    /\ resp.body.data._id \in DOMAIN store
    /\ store[resp.body.data._id].source = "customer"
    /\ store[resp.body.data._id].customer = [name |-> Jane]

\* The same request made again, right after r, leaves the store as r left it
SameAgain(r, again) == again.store = r.store

C11_DeletedStaysDeleted ==
    \A id \in deleted :
        /\ GetBugResult(store, created, id).resp.status = 404
        /\ \A query \in Queries :
              LET data == ListBugsResult(store, created, query).resp.body.data
              IN  \A k \in 1..Len(data) : data[k]._id # id

\* C11 witness: a request that had read a bug wrote after the bug's DELETE
\* was answered 200, and its save() found no document.
C11_Witness ==
    /\ deleted # {}
    /\ resp.status = 500 /\ Has(resp.body, "error")
    /\ resp.body.error = "No document found for query"

\* C18: for POST /bugs and POST /bugs/feedback, once the bug is persisted
\* the response is 201 with the stored record whether the webhook POST
\* succeeds or fails: a failed delivery changes neither the status code, nor
\* the response body, nor the stored record.
C18_WebhookFailureHarmless ==
    \A h \in 1..MaxHandlers :
        /\ handlers[h].pc = "notify" =>
              LET saved == handlers[h].answer.body.data
                  sent == AfterNotify(handlers[h].answer, "sent")
                  failed == AfterNotify(handlers[h].answer, "failed")
              IN  /\ failed = sent
                  /\ failed.status = 201 /\ failed.body.success = TRUE
                  /\ failed.body.data = saved
                  /\ saved._id \in DOMAIN store /\ store[saved._id] = saved
        /\ handlers[h].pc = "respond" =>
              LET answer == handlers[h].answer
              IN  /\ answer.status = 201 /\ answer.body.success = TRUE
                  /\ answer.body.data._id \in DOMAIN store
                  /\ store[answer.body.data._id] = answer.body.data

\* C18 witness: the notification of a feedback bug failed and was logged,
\* and the request was answered 201 with the stored record.
C18_Witness ==
    /\ resp.op = "POST /feedback" /\ resp.status = 201
    /\ resp.body.data._id \in logged
    /\ store[resp.body.data._id] = resp.body.data

\* C19: after a bug has been persisted by POST /bugs or POST /bugs/feedback
\* with a webhook URL configured, the 201 response is eventually sent, even
\* if the webhook call never completes.
C19_AnsweredWithoutWaiting ==
    \A h \in 1..MaxHandlers :
        (handlers[h].pc = "notify") ~> (handlers[h].pc = "idle")

---------------------------------------------------------------------------
(* Status transitions *)

\* C21: for every ordered pair (s, t) of Open, In Progress and Resolved, a
\* single PATCH /bugs/:id/status request on a bug whose status is s is
\* answered 200 and leaves the bug with status t; no status is terminal.
C21_AnyTransition ==
    \A id \in DOMAIN store, t \in EnumStatuses :
        \A body \in {[status |-> t], [status |-> t, by |-> Jane, reason |-> Why]} :
            LET r == PatchStatusResult(store, created, id, body)
            IN  /\ r.resp.status = 200 /\ r.resp.body.success = TRUE
                /\ r.resp.body.data.status = t
                /\ r.store[id].status = t

\* C21 witness: a PATCH request was answered 200 and moved a bug from Open
\* to In Progress, while another status than Open is stored as well.
C21_Witness ==
    /\ resp.op = "PATCH /:id/status" /\ resp.status = 200
    /\ LET bug == store[resp.body.data._id]
       IN  /\ bug.status = "In Progress"
           /\ \E i \in DOMAIN bug.statusHistory :
                 /\ bug.statusHistory[i].from = "Open"
                 /\ bug.statusHistory[i].to = "In Progress"

---------------------------------------------------------------------------
(* The customer sub-record *)

CustomerOnlyOnCustomerBugs(st) ==
    \A id \in DOMAIN st : DOMAIN st[id].customer # {} => st[id].source = "customer"

\* C22: in every reachable state, after any sequence of create, feedback and
\* PUT requests, a stored bug carries a customer sub-record only if its
\* source is customer.
C22_CustomerOnlyOnCustomerBugs ==
    /\ CustomerOnlyOnCustomerBugs(store)
    /\ \A body \in CreateBodies :
          CustomerOnlyOnCustomerBugs(CreateBugResult(store, created, body).store)
    /\ \A body \in FeedbackBodies :
          CustomerOnlyOnCustomerBugs(FeedbackResult(store, created, body).store)
    /\ \A id \in DOMAIN store, body \in PutBodies :
          CustomerOnlyOnCustomerBugs(UpdateBugResult(store, created, id, body).store)

---------------------------------------------------------------------------
(* Errors the middleware does not recognise *)

NodeEnvs == {"production", "test", "development"}

\* The errors of no recognised kind that reach the middleware: thrown by
\* updateStatus, and by save() when the document is gone
UnrecognisedErrors ==
    {PlainError("Invalid status value"), PlainError("No document found for query")}

\* C23: a failure of no recognised kind is answered 500 with success=false;
\* outside development mode two requests that fail with different internal
\* messages get the same generic body, and in development mode the body
\* carries the message and the stack.
C23_GenericOutsideDevelopment ==
    \A nodeEnv \in NodeEnvs, e1 \in UnrecognisedErrors, e2 \in UnrecognisedErrors :
        LET r1 == ErrorHandlerIn(nodeEnv, resp.op, e1)
            r2 == ErrorHandlerIn(nodeEnv, resp.op, e2)
        IN  /\ r1.status = 500 /\ r1.body.success = FALSE
            /\ nodeEnv # "development" =>
                  /\ r1.body = r2.body
                  /\ ~Has(r1.body, "stack")
            /\ nodeEnv = "development" =>
                  /\ r1.body.error = e1.message
                  /\ Has(r1.body, "stack") /\ r1.body.stack = Stack(e1)

---------------------------------------------------------------------------
(* GET /api/bugs/:id with a malformed identifier *)

\* C24: a GET /api/bugs/:id request with a malformed identifier is answered
\* 400 with success=false and a body whose error field is defined.
C24_MalformedIdErrorField ==
    \A id \in ClaimIds :
        ~IsValidObjectId(id) =>
            LET r == GetBugResult(store, created, id)
            IN  /\ r.resp.status = 400 /\ r.resp.body.success = FALSE
                /\ Has(r.resp.body, "error")

---------------------------------------------------------------------------
(* Health endpoints *)

\* C25: GET /api/health is served like GET /health: it is answered with a
\* 200 JSON success response, not with the undefined-route 404.
C25_ApiHealthServed ==
    \A path \in {"/health", "/api/health"} :
          /\ ServeGet(path).status = 200
          /\ ServeGet(path).body.success = TRUE

---------------------------------------------------------------------------
(* BugForm.  handleSubmit runs up to its await of bugAPI.createBug; the     *)
(* call settles when the server has answered or the request has failed      *)
(* (axios gives up after its timeout); handleSubmit then resumes.           *)

MaxCalls == 2

\* /^[^\s@]+@[^\s@]+\.[^\s@]+$/.test(text)
IsEmail(text) ==
    /\ \A i \in 1..Len(text) : text[i] # " "
    /\ Cardinality({i \in 1..Len(text) : text[i] = "@"}) = 1
    /\ \E i \in 2..Len(text), j \in 1..(Len(text) - 1) :
          text[i] = "@" /\ text[j] = "." /\ i + 1 < j

\* validateForm(): newErrors
ValidateForm(formData) ==
    LET title == IF Trim(formData.title) = << >>
                 THEN [title |-> "Title is required"]
                 ELSE IF Len(Trim(formData.title)) > 100
                 THEN [title |-> "Title cannot exceed 100 characters"]
                 ELSE Empty
        description == IF Trim(formData.description) = << >>
                       THEN [description |-> "Description is required"]
                       ELSE IF Len(Trim(formData.description)) > 1000
                       THEN [description |-> "Description cannot exceed 1000 characters"]
                       ELSE Empty
        priority == IF formData.priority \notin {"Low", "Medium", "High"}
                    THEN [priority |-> "Invalid priority value"]
                    ELSE Empty
        reportedBy == IF Trim(formData.reportedBy) = << >>
                      THEN [reportedBy |-> "Reporter name is required"]
                      ELSE IF Len(Trim(formData.reportedBy)) > 50
                      THEN [reportedBy |-> "Reporter name cannot exceed 50 characters"]
                      ELSE Empty
        customerName == IF formData.source = "customer"
                           /\ Trim(formData.customerName) = << >>
                        THEN [customerName |->
                                "Customer name is required for customer-reported bugs"]
                        ELSE Empty
        customerEmail == IF formData.source = "customer"
                            /\ formData.customerEmail # << >>
                            /\ ~IsEmail(formData.customerEmail)
                         THEN [customerEmail |-> "Invalid email address"]
                         ELSE Empty
    IN  Over(title, Over(description, Over(priority, Over(reportedBy,
             Over(customerName, customerEmail)))))

\* The payload of handleSubmit as JSON carries it: keys whose value is
\* undefined are left out
Payload(formData) ==
    LET Given(k, v) == IF v # << >> THEN [x \in {k} |-> v] ELSE Empty
    IN  Over([title |-> formData.title, description |-> formData.description,
              priority |-> formData.priority, reportedBy |-> formData.reportedBy,
              source |-> formData.source],
             Over(Given("assignedTo", formData.assignedTo),
                  IF formData.source = "customer"
                  THEN [customer |->
                          Over([name |-> formData.customerName],
                               Over(Given("email", formData.customerEmail),
                                    Given("id", formData.customerId)))]
                  ELSE Empty))

\* Mutant of the submit button: never disabled
SubmitNeverDisabled(f) == FALSE

\* The submit button's disabled={isSubmitting}
SubmitDisabled(f) == f.isSubmitting

\* What the user types into the form
Typed ==
    { <<"title", TitleA>>, <<"description", DescA>>, <<"reportedBy", Jane>>,
      <<"reportedBy", << >>>> }

ServerIdle == UNCHANGED <<store, created, resp, handlers, env, deleted, logged>>

\* handleInputChange(e), on an input that is not disabled
HandleInputChange(name, value) ==
    /\ ~form.isSubmitting
    /\ form.formData[name] # value
    /\ form' = [form EXCEPT !.formData[name] = value,
                            !.errors = IF Has(@, name) /\ @[name] # ""
                                       THEN Over(@, [x \in {name} |-> ""])
                                       ELSE @]
    /\ ServerIdle /\ UNCHANGED list

\* handleSubmit(e) up to its await
HandleSubmit ==
    /\ ~SubmitDisabled(form)
    /\ LET newErrors == ValidateForm(form.formData)
       IN  IF DOMAIN newErrors # {}
           THEN form' = [form EXCEPT !.errors = newErrors]
           ELSE /\ Len(form.calls) < MaxCalls
                /\ form' = [form EXCEPT !.errors = newErrors,
                                        !.isSubmitting = TRUE,
                                        !.successMessage = "",
                                        !.calls = Append(@, Payload(form.formData))]
    /\ ServerIdle /\ UNCHANGED list

Without(seq, i) == SubSeq(seq, 1, i - 1) \o SubSeq(seq, i + 1, Len(seq))

\* bugAPI.createBug(payload): the server answers the request
CreateAnswered(i) ==
    /\ i \in DOMAIN form.calls
    /\ LET r == CreateBugResult(store, created, form.calls[i])
           outcome == IF r.resp.status \in 200..299
                      THEN [state |-> "fulfilled", value |-> r.resp.body]
                      ELSE [state |-> "rejected",
                            message |-> IF TruthyStr(r.resp.body, "message")
                                        THEN r.resp.body.message
                                        ELSE "Failed to create bug"]
       IN  /\ Bounded(r)
           /\ store' = r.store /\ created' = r.created /\ resp' = r.resp
           /\ form' = [form EXCEPT !.calls = Without(@, i),
                                   !.settled = Append(@, outcome)]
    /\ UNCHANGED <<handlers, env, deleted, logged, list>>

\* bugAPI.createBug(payload): the request fails without an answer
CreateFails(i) ==
    /\ i \in DOMAIN form.calls
    /\ form' = [form EXCEPT !.calls = Without(@, i),
                            !.settled = Append(@, [state |-> "rejected",
                                                   message |-> "Failed to create bug"])]
    /\ ServerIdle /\ UNCHANGED list

\* handleSubmit after its await: try, catch and finally
ResumeSubmit ==
    /\ form.settled # << >>
    /\ LET outcome == Head(form.settled)
       IN  form' = IF outcome.state = "fulfilled"
                   THEN [form EXCEPT !.successMessage = "Bug created successfully!",
                                     !.formData = BlankForm,
                                     !.isSubmitting = FALSE,
                                     !.settled = Tail(@)]
                   ELSE [form EXCEPT !.errors = [submit |-> outcome.message],
                                     !.isSubmitting = FALSE,
                                     !.settled = Tail(@)]
    /\ ServerIdle /\ UNCHANGED list

\* handleReset(), on a button that is not disabled
HandleReset ==
    /\ ~form.isSubmitting
    /\ form' = [form EXCEPT !.formData = BlankForm, !.errors = Empty,
                            !.successMessage = ""]
    /\ ServerIdle /\ UNCHANGED list

\* The timer handleSubmit sets after a success
HideSuccess ==
    /\ form.successMessage # ""
    /\ form' = [form EXCEPT !.successMessage = ""]
    /\ ServerIdle /\ UNCHANGED list

FormNext ==
    \/ \E t \in Typed : HandleInputChange(t[1], t[2])
    \/ HandleSubmit
    \/ \E i \in 1..MaxCalls : CreateAnswered(i)
    \/ \E i \in 1..MaxCalls : CreateFails(i)
    \/ ResumeSubmit
    \/ HandleReset
    \/ HideSuccess

FormSpec == Init /\ [][FormNext]_vars

\* The script resumes a handler whose awaited call has settled
FairFormSpec == FormSpec /\ WF_vars(ResumeSubmit)

\* C26: in BugForm, from the start of a submission that passed validation
\* until its create call settles the form is in the submitting state, with
\* the submit button disabled so that no second create call is started;
\* once the call has settled, fulfilled or rejected, the form leaves the
\* submitting state.
C26_SubmittingUntilSettled ==
    /\ [](Len(form.calls) + Len(form.settled) <= 1)
    /\ [](form.calls # << >> => form.isSubmitting)
    /\ (form.settled # << >>) ~> ~form.isSubmitting

\* C26 witness: one submission was answered by the server and a later one
\* failed; the form shows the failure and is enabled again.
C26_Witness ==
    /\ created > 0
    /\ Has(form.errors, "submit")
    /\ form.calls = << >> /\ form.settled = << >>
    /\ ~form.isSubmitting

---------------------------------------------------------------------------
(* The status and its history under interleaving *)

\* The requests in progress on bug id
InProgressOn(id) ==
    {h \in 1..MaxHandlers :
        \/ Has(handlers[h], "bug") /\ handlers[h].bug._id = id
        \/ Has(handlers[h], "id") /\ handlers[h].id = id}

\* C27: whenever no request on a bug is in progress and the bug's
\* statusHistory is non-empty, the to value of its last entry equals the
\* bug's status, also after PATCH-status or PUT requests on the bug whose
\* read and write steps interleave.
C27_LastEntryIsStatus ==
    \A id \in DOMAIN store :
        (InProgressOn(id) = {} /\ store[id].statusHistory # << >>) =>
            store[id].statusHistory[Len(store[id].statusHistory)].to = store[id].status

---------------------------------------------------------------------------
(* Failed requests and the store *)

\* C28: every mutating request (POST /bugs, POST /bugs/feedback, PUT, PATCH
\* status, comment append, DELETE) answered with a non-2xx status leaves the
\* store exactly as it was, including a PATCH status request with a valid
\* status whose second save fails validation.
C28_FailureLeavesStore ==
    \A r \in Outcomes(store, created) :
        r.resp.status \notin 200..299 => r.store = store /\ r.created = created

---------------------------------------------------------------------------
(* What a PUT leaves alone *)

\* C29: a successful PUT /bugs/:id changes only the stored fields named in
\* the request body, plus statusHistory when the status changes: every
\* stored field absent from the body (reportedBy, assignedTo, source,
\* comments, the identifier, ...) keeps its value, and so does every other bug.
C29_PutKeepsAbsentFields ==
    \A id \in DOMAIN store, body \in PutBodies :
        LET r == UpdateBugResult(store, created, id, body)
        IN  r.resp.status = 200 =>
                /\ DOMAIN r.store = DOMAIN store
                /\ \A other \in DOMAIN store \ {id} : r.store[other] = store[other]
                /\ DOMAIN r.store[id] = DOMAIN store[id]
                /\ \A k \in DOMAIN store[id] :
                      (/\ k \notin DOMAIN body
                       /\ ~(k = "statusHistory" /\ StatusChanges(store[id], body))) =>
                          r.store[id][k] = store[id][k]

\* C29 witness: a PUT naming title, description, priority and status was
\* answered 200 on a customer bug, which has the new title and still its
\* reporter, source and customer.
C29_Witness ==
    /\ resp.op = "PUT /:id" /\ resp.status = 200
    /\ LET bug == store[resp.body.data._id]
       IN  /\ bug.title = TitleB /\ bug.status = "In Progress"
           /\ bug.reportedBy = Jane /\ bug.source = "customer"
           /\ bug.customer = [name |-> Jane]

---------------------------------------------------------------------------
(* BugList.  fetchBugs runs up to its await of bugAPI.getAllBugs with the   *)
(* settings of the render that started it; the fetches in flight settle in  *)
(* any order, and each sets bugs or error and clears loading when it does.  *)
(* The filter controls, the sort headers and the refresh button are         *)
(* rendered only when loading is false and error is null.  The handlers     *)
(* that change one row of bugs in place (status update, delete) are left    *)
(* out.                                                                     *)

\* const params = {...filters, sortBy, order: sortOrder}
Params(l) == Over(l.filters, [sortBy |-> l.sortBy, order |-> l.sortOrder])

\* How many times React runs the effect of the first render: once, and
\* twice under React.StrictMode in a development build
EffectRuns == {1, 2}

\* fetchBugs() up to its await, called runs times
FetchBugs(l, runs) ==
    [l EXCEPT !.loading = TRUE, !.error = "",
              !.fetches = @ (+) [p \in {Params(l)} |-> runs]]

\* The list with its controls is what the component renders
Rendered(l) == l.mounted /\ ~l.loading /\ l.error = ""

\* useEffect(() => { fetchBugs(); }, ...) after the first render
Mount ==
    /\ ~list.mounted
    /\ \E runs \in EffectRuns :
          list' = FetchBugs([list EXCEPT !.mounted = TRUE], runs)
    /\ ServerIdle /\ UNCHANGED form

\* handleFilterChange(e), then the effect of the render it causes
HandleFilterChange(name, value) ==
    /\ Rendered(list)
    /\ list.filters[name] # value
    /\ list' = FetchBugs([list EXCEPT !.filters[name] = value], 1)
    /\ ServerIdle /\ UNCHANGED form

\* handleSort(field), then the effect of the render it causes
HandleSort(field) ==
    /\ Rendered(list)
    /\ list' = FetchBugs(IF list.sortBy = field
                         THEN [list EXCEPT !.sortOrder =
                                  IF @ = "asc" THEN "desc" ELSE "asc"]
                         ELSE [list EXCEPT !.sortBy = field, !.sortOrder = "desc"],
                         1)
    /\ ServerIdle /\ UNCHANGED form

\* onClick={fetchBugs} of the refresh button and of the retry button
ClickFetch ==
    /\ list.mounted /\ ~list.loading
    /\ list' = FetchBugs(list, 1)
    /\ ServerIdle /\ UNCHANGED form

\* bugAPI.getAllBugs(params): the server answers, and fetchBugs resumes
FetchAnswered(params) ==
    /\ BagIn(params, list.fetches)
    /\ LET r == ListBugsResult(store, created, params)
       IN  /\ resp' = r.resp
           /\ list' = [list EXCEPT !.bugs = r.resp.body.data,
                                   !.shown = params,
                                   !.loading = FALSE,
                                   !.fetches = @ (-) SetToBag({params})]
    /\ UNCHANGED <<store, created, handlers, env, deleted, logged, form>>

\* bugAPI.getAllBugs(params): the request fails, and fetchBugs resumes
FetchFails(params) ==
    /\ BagIn(params, list.fetches)
    /\ list' = [list EXCEPT !.error = "Failed to fetch bugs",
                            !.loading = FALSE,
                            !.fetches = @ (-) SetToBag({params})]
    /\ ServerIdle /\ UNCHANGED form

\* What the user picks in the list
PickedFilters == { <<"status", "Open">>, <<"status", "">> }
PickedSorts == {"priority", "createdAt"}

\* The bugs other clients create meanwhile
ListCreateBodies == {Sample}

ListNext ==
    \/ \E body \in ListCreateBodies : CreateBug(body)
    \/ Mount
    \/ \E f \in PickedFilters : HandleFilterChange(f[1], f[2])
    \/ \E field \in PickedSorts : HandleSort(field)
    \/ ClickFetch
    \/ \E params \in BagToSet(list.fetches) : FetchAnswered(params)
    \/ \E params \in BagToSet(list.fetches) : FetchFails(params)

ListSpec == Init /\ [][ListNext]_vars

\* C30: in BugList, once all fetches have settled the displayed list is the
\* response to the request made with the latest filter and sort settings,
\* whatever order the responses arrive in.
C30_LatestSettingsShown ==
    (Rendered(list) /\ list.fetches = EmptyBag) => list.shown = Params(list)

====
